---- MODULE Spec2Model ----
(***************************************************************************)
(* The IFC georeferencing web application (src/app.py) as a state machine. *)
(*                                                                         *)
(* State: the upload folder (the uploaded model and the georeferenced copy *)
(* calculate writes), the Flask session (a dictionary of keys that the     *)
(* handlers use to pass values from one request to the next) and the       *)
(* response of the last request.  One action per HTTP handler.             *)
(*                                                                         *)
(* Numbers.  Python floats are modelled by exact rationals <<n, d>> with   *)
(* d > 0 in lowest terms.  Angles in radians are integer multiples of      *)
(* pi/18 (ten degrees); cos and sin are taken only at multiples of a       *)
(* quarter turn, where they are rational.                                  *)
(* Optional values (Python None) are <<>>, a present value v is <<v>>.     *)
(***************************************************************************)
EXTENDS Integers, Sequences, FiniteSets, TLC

(***************************************************************************)
(* Bounds of the model.                                                    *)
(***************************************************************************)
\* largest number of rows a survey form or an auto_georeference request asks for
MaxRows == 2
\* most points an auto_georeference request carries in either list
MaxAuto == 1
\* most requests of one session
MaxRequests == 5
\* explicit pairs are built from the points <<c+1, c+2, c+3>>, c in 0..MaxCoord
MaxCoord == 1
MaxPoints == 4

None == <<>>
Some(v) == <<v>>
Val(o) == o[1]
IsNone(o) == o = <<>>

(***************************************************************************)
(* Exact rational arithmetic standing for float arithmetic.  A zero        *)
(* denominator is a non-finite float: <<1, 0>> inf, <<-1, 0>> -inf and     *)
(* <<0, 0>> nan.                                                           *)
(***************************************************************************)
Abs(i) == IF i < 0 THEN -i ELSE i

RECURSIVE Gcd(_, _)
Gcd(a, b) == IF b = 0 THEN a ELSE Gcd(b, a % b)

Rat(n, d) ==
    LET s == IF d < 0 THEN -1 ELSE 1
        g == IF n = 0 /\ d = 0 THEN 1 ELSE Gcd(Abs(n), Abs(d))
    IN  <<(s * n) \div g, (s * d) \div g>>

RInt(i) == <<i, 1>>
NaN == <<0, 0>>
Inf == <<1, 0>>
IsFinite(a) == a[2] # 0
RAdd(a, b) ==
    IF ~IsFinite(a) /\ ~IsFinite(b) THEN (IF a = b THEN a ELSE NaN)
    ELSE Rat(a[1] * b[2] + b[1] * a[2], a[2] * b[2])
RSub(a, b) ==
    IF ~IsFinite(a) /\ ~IsFinite(b) THEN (IF a[1] = -b[1] THEN a ELSE NaN)
    ELSE Rat(a[1] * b[2] - b[1] * a[2], a[2] * b[2])
RMul(a, b) == Rat(a[1] * b[1], a[2] * b[2])
RDiv(a, b) == Rat(a[1] * b[2], a[2] * b[1])
RZero == <<0, 1>>
ROne == <<1, 1>>

\* Python's int(x) of a float: truncation toward zero
IntTrunc(a) == IF a[1] >= 0 THEN a[1] \div a[2] ELSE -((-a[1]) \div a[2])

\* Python 3 round(n/d) for d > 0: to the nearest integer, a tie to the even one
PyRound(n, d) ==
    LET q == n \div d
        r == n - q * d
    IN  IF 2 * r < d THEN q
        ELSE IF 2 * r > d THEN q + 1
        ELSE IF q % 2 = 0 THEN q ELSE q + 1

(***************************************************************************)
(* Angles.  A radian value is k * pi/18; QuarterTurn is pi/2.              *)
(***************************************************************************)
QuarterTurn == 9

\* math.cos and math.sin at multiples of a quarter turn
Cos(a) ==
    LET k == (a \div QuarterTurn) % 4
    IN  IF k = 0 THEN RInt(1) ELSE IF k = 2 THEN RInt(-1) ELSE RZero

Sin(a) ==
    LET k == (a \div QuarterTurn) % 4
    IN  IF k = 1 THEN RInt(1) ELSE IF k = 3 THEN RInt(-1) ELSE RZero

(***************************************************************************)
(* A float that keeps the sign of zero: [neg |-> sign bit, mag |-> |x| in  *)
(* millionths].  TrueNorth components are read in units of 1e-7 and        *)
(* rounded to six decimals by round(float(.), 6), which keeps the sign:    *)
(* round(-1e-7, 6) is -0.0.                                                *)
(***************************************************************************)
Round6(raw) == [neg |-> raw < 0, mag |-> PyRound(Abs(raw), 10)]

\* math.atan2(y, x) for a vector on an axis (or zero), signed zeros as in C
Atan2(y, x) ==
    IF y.mag > 0 /\ x.mag = 0 THEN (IF y.neg THEN -QuarterTurn ELSE QuarterTurn)
    ELSE IF x.neg
         THEN (IF y.neg THEN -2 * QuarterTurn ELSE 2 * QuarterTurn)
         ELSE 0

(***************************************************************************)
(* The collaborators the handlers call: the unit table (pint), the EPSG    *)
(* registry and the projection (pyproj), and the uploaded IFC models.      *)
(***************************************************************************)
\* meters per unit of the pint units unit_mapping names
MetersPerUnit(u) ==
    CASE u \in {"METRE", "METER", "metre", "meter"} -> Rat(1, 1)
      [] u \in {"CENTIMETRE", "CENTIMETER", "centimetre", "centimeter"} -> Rat(1, 100)
      [] u \in {"MILLIMETRE", "MILLIMETER", "millimetre", "millimeter"} -> Rat(1, 1000)
      [] u \in {"INCH", "inch"} -> Rat(127, 5000)
      [] u \in {"FOOT", "foot"} -> Rat(381, 1250)
      [] u \in {"YARD", "yard"} -> Rat(1143, 1250)
      [] u \in {"MILE", "mile"} -> Rat(201168, 125)
      [] u \in {"NAUTICAL_MILE", "nautical_mile"} -> Rat(1852, 1)

\* the keys of unit_mapping
UnitNames ==
    {"METRE", "METER", "CENTIMETRE", "CENTIMETER", "MILLIMETRE", "MILLIMETER",
     "INCH", "FOOT", "YARD", "MILE", "NAUTICAL_MILE",
     "metre", "meter", "centimeter", "centimetre", "millimeter", "millimetre",
     "inch", "foot", "yard", "mile", "nautical_mile"}

\* unitmapper(value) followed by .to(ureg.meter).magnitude; None when the name
\* is no key (unitmapper returns None and the conversion raises, caught)
unitmapper(value) ==
    IF value \in UnitNames THEN Some(MetersPerUnit(value)) ELSE None

\* str.lower on the unit names that occur
Lower(u) ==
    CASE u = "METRE" -> "metre"
      [] u = "METER" -> "meter"
      [] u = "MILLIMETRE" -> "millimetre"
      [] u = "MILLIMETER" -> "millimeter"
      [] u = "CENTIMETRE" -> "centimetre"
      [] u = "CENTIMETER" -> "centimeter"
      [] u = "DECIMETRE" -> "decimetre"
      [] u = "INCH" -> "inch"
      [] u = "FOOT" -> "foot"
      [] u = "YARD" -> "yard"
      [] u = "MILE" -> "mile"
      [] u = "NAUTICAL_MILE" -> "nautical_mile"
      [] u = "US survey foot" -> "us survey foot"
      [] OTHER -> u

\* the EPSG codes pyproj resolves, with is_projected and axis_info[0].unit_name
EpsgRegistry == {32643, 2222, 2263, 4326}
CrsOf(code) ==
    CASE code = 32643 -> [is_projected |-> TRUE, unit_name |-> "metre"]
      [] code = 2222 -> [is_projected |-> TRUE, unit_name |-> "foot"]
      [] code = 2263 -> [is_projected |-> TRUE, unit_name |-> "US survey foot"]
      [] code = 4326 -> [is_projected |-> FALSE, unit_name |-> "degree"]

\* Transformer.from_crs("EPSG:4326", target).transform(x0, y0, RElev): the
\* projected position of the model's reference point, one per target CRS
Transform(code, ref) ==
    IF code = 32643 THEN <<RInt(ref[1] + 3), RInt(ref[2] + 5), RInt(ref[3])>>
    ELSE <<RInt(3 * ref[1] + 1), RInt(3 * ref[2] + 2), RInt(ref[3])>>

\* faulty variant: the quotient taken the other way round
UnitCoefficientInverted(ifcmeter, crsmeter) == RDiv(crsmeter, ifcmeter)

\* line 159: coeff = ifcmeter/crsmeter
UnitCoefficient(ifcmeter, crsmeter) == RDiv(ifcmeter, crsmeter)

(***************************************************************************)
(* An uploaded model, as far as the handlers read it.                      *)
(*   schema       ifc_file.schema                                          *)
(*   Ref          IfcSite RefLatitude/RefLongitude/RefElevation as         *)
(*                <<x0, y0, RElev>>, or None when either is absent         *)
(*   placement    the type of IfcSite.ObjectPlacement(.RelativePlacement)  *)
(*   origin       RelativePlacement.Location.Coordinates                   *)
(*   Prefix, Name the IfcSIUnit of LENGTHUNIT (Name None: there is none)   *)
(*   TrueNorth    IfcGeometricRepresentationContext.TrueNorth ratios in    *)
(*                units of 1e-7, or None                                   *)
(*   MapConversion  the declared IfcMapConversion/IfcProjectedCRS, or None *)
(***************************************************************************)
Unit7 == 10000000

IfcModel(schema, Ref, placement, origin, Prefix, Name, TrueNorth, MapConversion) ==
    [schema |-> schema, Ref |-> Ref, placement |-> placement, origin |-> origin,
     Prefix |-> Prefix, Name |-> Name, TrueNorth |-> TrueNorth,
     MapConversion |-> MapConversion]

\* a site with a reference point and a local origin, in millimetres
SurveyedModel(t) ==
    IfcModel("IFC4", Some(<<1, 1, 2>>), "IfcAxis2Placement3D", <<1, 2, 3>>,
             Some("MILLI"), Some("METRE"), t, None)
\* a site without reference point, in metres
PlainModel(t) ==
    IfcModel("IFC4", None, "IfcAxis2Placement3D", <<0, 0, 0>>,
             None, Some("METRE"), t, None)
\* a site with a reference point and no local placement
GridModel(t) ==
    IfcModel("IFC2X3", Some(<<1, 1, 2>>), "IfcGridPlacement", <<0, 0, 0>>,
             None, Some("METRE"), t, None)
\* a model that already declares a map conversion, without scale
GeoreferencedModel(t) ==
    IfcModel("IFC4", Some(<<1, 1, 2>>), "IfcAxis2Placement3D", <<1, 2, 3>>,
             Some("MILLI"), Some("METRE"), t,
             Some([Scale |-> None, TargetCRS |-> 32643]))

TrueNorths ==
    {None,
     Some(<<0, Unit7>>), Some(<<Unit7, 0>>), Some(<<0, -Unit7>>),
     Some(<<-Unit7, 0>>), Some(<<-1, -Unit7>>)}

(***************************************************************************)
(* State.                                                                  *)
(*   uploads   uploads/model.ifc: None, or the model last uploaded         *)
(*   outputs   uploads/model_georeferenced.ifc: None, or the map           *)
(*             conversion calculate wrote last                             *)
(*   session   the Flask session; a key that was never set reads as None   *)
(*   resp      the response to the last request, with the values the       *)
(*             handler computed for it                                     *)
(*   requests  the number of requests served so far                        *)
(* The session keys Longitude, Latitude, filename and the coordinate keys  *)
(* x0, y0, ... that auto_georeference stores are written and never read by *)
(* a handler; of the latter only their number is kept (auto_stored).       *)
(*                                                                         *)
(* A handler is an operator from the state st = [uploads, outputs,         *)
(* session] before the request and the request's inputs to the state       *)
(* after it, with the response.  georeferencer is the desktop tool's       *)
(* InteractiveGeoreferencer object, a program of its own.                  *)
(***************************************************************************)
VARIABLES uploads, outputs, session, resp, requests, georeferencer

vars == <<uploads, outputs, session, resp, requests, georeferencer>>

EmptySession ==
    [coeff |-> None, target_epsg |-> None, rows |-> None, Refl |-> None,
     xt |-> None, yt |-> None, zt |-> None,
     bx |-> None, by |-> None, bz |-> None,
     mapunit |-> None, ifcunit |-> None, scaleError |-> None,
     auto_mode |-> None, auto_building_points |-> None,
     auto_map_points |-> None, auto_stored |-> 0]

Fresh == [uploads |-> None, outputs |-> None, session |-> EmptySession]

Cur == [uploads |-> uploads, outputs |-> outputs, session |-> session]

\* the state a handler leaves and its response
Respond(st, s, r) ==
    [uploads |-> st.uploads, outputs |-> st.outputs, session |-> s, resp |-> r]

\* Python truthiness of session.get('Refl') and session.get('scaleError')
Truthy(o) == o = Some(TRUE)

SchemaSupported(schema) == schema \in {"IFC4", "IFC4X3", "IFC2X3"}

\* faulty variant: a code that does not resolve also resets what an earlier
\* call stored
infoExtResettingOnFailure(s, ifc_file, epsgCode) ==
    IF IsNone(ifc_file)
    THEN [session |-> s,
          error |-> "Could not open IFC file. Please check the file exists and is valid."]
    ELSE
    LET m == Val(ifc_file)
        hasRef == ~IsNone(m.Ref)
        s1 == [s EXCEPT !.Refl = Some(hasRef)]
    IN
    IF hasRef /\ m.placement = "IfcAxis2Placement2D"
    THEN [session |-> s1, error |-> "Local placement is not IfcAxis2Placement3D."]
    ELSE IF hasRef /\ m.placement # "IfcAxis2Placement3D"
    THEN [session |-> s1, error |-> "IfcSite does not have a local placement."]
    ELSE IF ~SchemaSupported(m.schema)
    THEN [session |-> s1, error |-> "IFC2X3, IFC4, and newer versions are supported."]
    ELSE IF IsNone(epsgCode) \/ Val(epsgCode) \notin EpsgRegistry
    THEN [session |-> [s1 EXCEPT !.coeff = None, !.xt = None, !.yt = None, !.zt = None],
          error |-> "CRS is not available."]
    ELSE IF ~CrsOf(Val(epsgCode)).is_projected
    THEN [session |-> s1, error |-> "CRS is not projected (geographic)."]
    ELSE
    LET crsunit == CrsOf(Val(epsgCode)).unit_name
        ifcunit == IF IsNone(m.Name) THEN None
                   ELSE IF IsNone(m.Prefix) THEN m.Name
                   ELSE Some(Val(m.Prefix) \o Val(m.Name))
        ifcmeter == IF IsNone(ifcunit) THEN None ELSE unitmapper(Val(ifcunit))
        crsmeter == unitmapper(crsunit)
    IN
    IF IsNone(crsmeter) \/ IsNone(ifcmeter)
    THEN [session |-> s1, error |-> "IFC/Map unit error"]
    ELSE
    LET coeff == UnitCoefficient(Val(ifcmeter), Val(crsmeter))
        s2 == [s1 EXCEPT !.mapunit = Some(Lower(crsunit)),
                         !.ifcunit = Some(Lower(Val(ifcunit))),
                         !.coeff = Some(coeff)]
        t == Transform(Val(epsgCode), Val(m.Ref))
    IN
    [session |-> IF hasRef
                 THEN [s2 EXCEPT !.xt = Some(t[1]), !.yt = Some(t[2]), !.zt = Some(t[3])]
                 ELSE s2,
     error |-> ""]

(***************************************************************************)
(* infoExt(filename, epsgCode): the session as it leaves it, and the       *)
(* errorMessage it returns ("" for success).  ifc_file is fileOpener's     *)
(* result (None when the file does not exist), epsgCode is None when the   *)
(* caller passes session.get of a key never set (int(None) raises inside   *)
(* the try).                                                               *)
(***************************************************************************)
infoExt(s, ifc_file, epsgCode) ==
    IF IsNone(ifc_file)
    THEN [session |-> s,
          error |-> "Could not open IFC file. Please check the file exists and is valid."]
    ELSE
    LET m == Val(ifc_file)
        hasRef == ~IsNone(m.Ref)
        s1 == [s EXCEPT !.Refl = Some(hasRef)]
    IN
    IF hasRef /\ m.placement = "IfcAxis2Placement2D"
    THEN [session |-> s1, error |-> "Local placement is not IfcAxis2Placement3D."]
    ELSE IF hasRef /\ m.placement # "IfcAxis2Placement3D"
    THEN [session |-> s1, error |-> "IfcSite does not have a local placement."]
    ELSE IF ~SchemaSupported(m.schema)
    THEN [session |-> s1, error |-> "IFC2X3, IFC4, and newer versions are supported."]
    ELSE IF IsNone(epsgCode) \/ Val(epsgCode) \notin EpsgRegistry
    THEN [session |-> s1, error |-> "CRS is not available."]
    ELSE IF ~CrsOf(Val(epsgCode)).is_projected
    THEN [session |-> s1, error |-> "CRS is not projected (geographic)."]
    ELSE
    LET crsunit == CrsOf(Val(epsgCode)).unit_name
        ifcunit == IF IsNone(m.Name) THEN None
                   ELSE IF IsNone(m.Prefix) THEN m.Name
                   ELSE Some(Val(m.Prefix) \o Val(m.Name))
        ifcmeter == IF IsNone(ifcunit) THEN None ELSE unitmapper(Val(ifcunit))
        crsmeter == unitmapper(crsunit)
    IN
    IF IsNone(crsmeter) \/ IsNone(ifcmeter)
    THEN [session |-> s1, error |-> "IFC/Map unit error"]
    ELSE
    LET coeff == UnitCoefficient(Val(ifcmeter), Val(crsmeter))
        s2 == [s1 EXCEPT !.mapunit = Some(Lower(crsunit)),
                         !.ifcunit = Some(Lower(Val(ifcunit))),
                         !.coeff = Some(coeff)]
        t == Transform(Val(epsgCode), Val(m.Ref))
    IN
    [session |-> IF hasRef
                 THEN [s2 EXCEPT !.xt = Some(t[1]), !.yt = Some(t[2]), !.zt = Some(t[3])]
                 ELSE s2,
     error |-> ""]

\* georef(ifc_file): whether the model declares a map conversion
georef(m) ==
    /\ ~IsNone(m.MapConversion)
    /\ m.schema \in {"IFC4", "IFC4X3", "IFC2X3"}

(***************************************************************************)
(* POST /upload.  file is None for a file whose extension is not .ifc,     *)
(* else the model, which is saved as model.ifc.                            *)
(***************************************************************************)
upload_file(st, file) ==
    IF IsNone(file)
    THEN Respond(st, st.session,
                 [route |-> "upload", status |-> 200, kind |-> "invalid_format"])
    ELSE
    LET m == Val(file)
        saved == [st EXCEPT !.uploads = file]
    IN
    IF georef(m)
    THEN LET r == infoExt(st.session, file, Some(Val(m.MapConversion).TargetCRS))
             coeff == r.session.coeff
             Scale == Val(m.MapConversion).Scale
             conflict ==
                /\ ~IsNone(coeff)
                /\ IntTrunc(Val(coeff)) # 1
                /\ (IsNone(Scale) \/ IntTrunc(Val(Scale)) = 1)
         IN  Respond(saved,
                     IF conflict THEN [r.session EXCEPT !.scaleError = Some(TRUE)]
                     ELSE r.session,
                     [route |-> "upload", status |-> 200,
                      kind |-> IF IsNone(coeff) THEN "result_info"
                               ELSE "result_georeferenced",
                      error |-> r.error, shown |-> IsNone(coeff),
                      conflict |-> conflict])
    ELSE Respond(saved, st.session,
                 [route |-> "upload", status |-> 302, kind |-> "redirect_convert"])

(***************************************************************************)
(* GET/POST /convert/model.ifc.  epsg is the form's epsg_code: None when   *)
(* int() rejects it.                                                       *)
(***************************************************************************)
convert_crs(st, method, epsg) ==
    IF method = "GET"
    THEN Respond(st, st.session,
                 [route |-> "convert", status |-> 200, kind |-> "form", error |-> "",
                  shown |-> TRUE])
    ELSE IF IsNone(epsg)
    THEN Respond(st, st.session,
                 [route |-> "convert", status |-> 200, kind |-> "form",
                  error |-> "Invalid EPSG code. Please enter a valid integer.",
                  shown |-> TRUE])
    ELSE LET r == infoExt([st.session EXCEPT !.target_epsg = epsg], st.uploads, epsg)
         IN  Respond(st, r.session,
                     IF r.error = ""
                     THEN [route |-> "convert", status |-> 302,
                           kind |-> "redirect_survey", error |-> "", shown |-> TRUE]
                     ELSE [route |-> "convert", status |-> 200,
                           kind |-> "form", error |-> r.error, shown |-> TRUE])

\* the errors both infoExt (lines 84-88) and local_trans (lines 392-394) report
PlacementErrors ==
    {"Local placement is not IfcAxis2Placement3D.",
     "IfcSite does not have a local placement."}

(***************************************************************************)
(* local_trans(filename, messages): stores the model's local origin in the *)
(* session, (0, 0, 0) when the site has no IfcAxis2Placement3D placement.  *)
(***************************************************************************)
local_trans(s, m) ==
    LET o == IF m.placement = "IfcAxis2Placement3D" THEN m.origin ELSE <<0, 0, 0>>
    IN  [s EXCEPT !.bx = Some(RInt(o[1])), !.by = Some(RInt(o[2])),
                  !.bz = Some(RInt(o[3]))]

(***************************************************************************)
(* GET/POST /survey/model.ifc.  The session key auto_points is set by no   *)
(* handler, so the branch that reads it is never taken.  box is the form's *)
(* boxNumber, Num its Num: None when int() rejects it.                     *)
(***************************************************************************)
survey_points(st, method, box, Num) ==
    LET r == infoExt(st.session, st.uploads, st.session.target_epsg)
        discard == method = "POST" /\ box = "3"
        s2 == IF discard THEN [r.session EXCEPT !.Refl = Some(FALSE)] ELSE r.session
        Refl == Truthy(s2.Refl)
    IN
    IF Refl /\ IsNone(st.uploads)
    THEN \* local_trans calls by_type on None
         Respond(st, s2, [route |-> "survey", status |-> 500, kind |-> "AttributeError",
                          discard |-> discard])
    ELSE
    LET s3 == IF Refl THEN local_trans(s2, Val(st.uploads)) ELSE s2
        bad == IsNone(Num) \/ (IF Refl THEN Val(Num) < 0 ELSE Val(Num) <= 0)
        \* line 345 replaces infoExt's error by local_trans's, which repeats
        \* the two placement errors; line 374 renders no error
        inPage == IF Refl THEN r.error \in PlacementErrors ELSE FALSE
        inErrorPage == IF Refl THEN r.error \in PlacementErrors ELSE TRUE
    IN
    IF method = "GET"
    THEN Respond(st, s3, [route |-> "survey", status |-> 200, kind |-> "form",
                          Refl |-> Refl, discard |-> discard, error |-> r.error, shown |-> inPage])
    ELSE IF bad
    THEN Respond(st, s3, [route |-> "survey", status |-> 200, kind |-> "form_error",
                          Refl |-> Refl, discard |-> discard, error |-> r.error, shown |-> inErrorPage])
    ELSE Respond(st, [s3 EXCEPT !.rows = Num],
                 IF Refl /\ Val(Num) = 0
                 THEN [route |-> "survey", status |-> 302, kind |-> "redirect_calculate",
                       Refl |-> Refl, discard |-> discard, error |-> r.error, shown |-> FALSE]
                 ELSE [route |-> "survey", status |-> 200, kind |-> "form",
                       Refl |-> Refl, discard |-> discard, error |-> r.error, shown |-> inPage])

(***************************************************************************)
(* POST /auto_georeference.  nb and nm are the lengths of buildingPoints   *)
(* and mapPoints, epsg the number in epsgCode.                             *)
(***************************************************************************)
Min(a, b) == IF a < b THEN a ELSE b
Max(a, b) == IF a > b THEN a ELSE b

auto_georeference(st, epsg, nb, nm) ==
    Respond(st,
            [st.session EXCEPT !.target_epsg = Some(epsg),
                               !.rows = Some(nb),
                               !.auto_building_points = Some(nb),
                               !.auto_map_points = Some(nm),
                               !.auto_mode = Some(TRUE),
                               !.auto_stored = Max(@, Min(nb, nm))],
            [route |-> "auto_georeference", status |-> 200, kind |-> "success"])

(***************************************************************************)
(* GET /direct_georeference/model.ifc: the survey form filled in with the  *)
(* points auto_georeference stored.  url_for('upload') names no endpoint,  *)
(* so the branch without auto_mode ends in the handler's except.           *)
(***************************************************************************)
direct_georeference(st) ==
    LET rows == IF IsNone(st.session.rows) THEN 0 ELSE Val(st.session.rows)
    IN
    IF ~Truthy(st.session.auto_mode)
    THEN Respond(st, st.session,
                 [route |-> "direct_georeference", status |-> 500, kind |-> "BuildError"])
    ELSE IF rows = 0
    THEN Respond(st, st.session,
                 [route |-> "direct_georeference", status |-> 400,
                  kind |-> "No points to process"])
    ELSE Respond(st, st.session,
                 [route |-> "direct_georeference", status |-> 200, kind |-> "form",
                  Num |-> rows,
                  building_points |-> st.session.auto_building_points,
                  map_points |-> st.session.auto_map_points])

(***************************************************************************)
(* GET/POST /calc/model.ifc: the solver.                                   *)
(***************************************************************************)
\* float(text) of a text that is no decimal number: nan and inf are floats,
\* anything else raises ValueError (None)
Float(text) ==
    CASE text = "nan" -> Some(NaN)
      [] text = "inf" -> Some(Inf)
      [] OTHER -> None

\* a row whose z_prime field holds a text in place of a number
Textual(r) == "z_prime_text" \in DOMAIN r
Unparsable(r) == Textual(r) /\ IsNone(Float(r.z_prime_text))
Malformed(r) == Textual(r) /\ (Unparsable(r) \/ ~IsFinite(Val(Float(r.z_prime_text))))

\* float(request.form[...]) of one row of the form, as a data point
DataPoint(r) ==
    [X |-> RInt(r.x), Y |-> RInt(r.y), Z |-> RInt(r.z),
     X_prime |-> RInt(r.x_prime), Y_prime |-> RInt(r.y_prime),
     Z_prime |-> IF Textual(r) THEN Val(Float(r.z_prime_text)) ELSE RInt(r.z_prime)]

\* faulty variant: the two components of the direction taken in the other order
TrueNorthRotationSwapped(m) ==
    LET ro == m.TrueNorth
        xord == IF ~IsNone(ro) THEN Round6(Val(ro)[1]) ELSE [neg |-> FALSE, mag |-> 0]
        xabs == IF ~IsNone(ro) THEN Round6(Val(ro)[2])
                ELSE [neg |-> FALSE, mag |-> 1000000]
    IN  Atan2(xabs, xord)

\* faulty variant: a model without TrueNorth defaults to the direction (1, 0)
TrueNorthRotationDefaultX(m) ==
    LET ro == m.TrueNorth
        xord == IF ~IsNone(ro) THEN Round6(Val(ro)[1])
                ELSE [neg |-> FALSE, mag |-> 1000000]
        xabs == IF ~IsNone(ro) THEN Round6(Val(ro)[2]) ELSE [neg |-> FALSE, mag |-> 0]
    IN  Atan2(xord, xabs)

\* lines 430-437 and 451-458: the rotation both closed forms take from the
\* model's TrueNorth; xord is the first DirectionRatio, xabs the second
TrueNorthRotation(m) ==
    LET ro == m.TrueNorth
        xord == IF ~IsNone(ro) THEN Round6(Val(ro)[1]) ELSE [neg |-> FALSE, mag |-> 0]
        xabs == IF ~IsNone(ro) THEN Round6(Val(ro)[2])
                ELSE [neg |-> FALSE, mag |-> 1000000]
    IN  Atan2(xord, xabs)

\* faulty variant: the coefficient itself as the scale
ScaleNotInverted(coeff) == coeff

\* lines 438 and 459: the scale both closed forms use
ClosedScale(coeff) == RDiv(ROne, coeff)

\* faulty variant: the rotated model point added instead of subtracted
ClosedPairTranslationSignSlip(S, rot, p) ==
    LET A == Cos(rot)
        B == Sin(rot)
    IN  [E |-> RAdd(RAdd(p.X_prime, RMul(RMul(A, p.X), S)), RMul(RMul(B, p.Y), S)),
         N |-> RSub(RSub(p.Y_prime, RMul(RMul(B, p.X), S)), RMul(RMul(A, p.Y), S)),
         H |-> RAdd(p.Z_prime, RMul(p.Z, S))]

\* lines 441-445: translation from the single explicit pair
ClosedPairTranslation(S, rot, p) ==
    LET A == Cos(rot)
        B == Sin(rot)
    IN  [E |-> RAdd(RSub(p.X_prime, RMul(RMul(A, p.X), S)), RMul(RMul(B, p.Y), S)),
         N |-> RSub(RSub(p.Y_prime, RMul(RMul(B, p.X), S)), RMul(RMul(A, p.Y), S)),
         H |-> RSub(p.Z_prime, RMul(p.Z, S))]

\* faulty variant: the height not scaled
ClosedAnchorTranslationUnscaledHeight(S, rot, p) ==
    LET A == Cos(rot)
        B == Sin(rot)
    IN  [E |-> RAdd(RSub(p.X_prime, RMul(RMul(A, S), p.X)), RMul(RMul(B, S), p.Y)),
         N |-> RSub(RSub(p.Y_prime, RMul(RMul(B, S), p.X)), RMul(RMul(A, S), p.Y)),
         H |-> RSub(p.Z_prime, p.Z)]

\* lines 462-464: translation from the anchor pair
ClosedAnchorTranslation(S, rot, p) ==
    LET A == Cos(rot)
        B == Sin(rot)
    IN  [E |-> RAdd(RSub(p.X_prime, RMul(RMul(A, S), p.X)), RMul(RMul(B, S), p.Y)),
         N |-> RSub(RSub(p.Y_prime, RMul(RMul(B, S), p.X)), RMul(RMul(A, S), p.Y)),
         H |-> RSub(p.Z_prime, RMul(S, p.Z))]

\* equations(variables, data_points) for one data point: eq1, eq2, eq3
equations(S, rot, E, N, H, p) ==
    <<RSub(RAdd(RSub(RMul(RMul(S, Cos(rot)), p.X), RMul(RMul(S, Sin(rot)), p.Y)), E),
           p.X_prime),
      RSub(RAdd(RAdd(RMul(RMul(S, Sin(rot)), p.X), RMul(RMul(S, Cos(rot)), p.Y)), N),
           p.Y_prime),
      RSub(RAdd(RMul(S, p.Z), H), p.Z_prime)>>

\* initial_guess when the session holds an anchor (line 508)
AnchorGuess(coeff, xt, yt, zt) ==
    [S |-> coeff, Rotation |-> 0, E |-> xt, N |-> yt, H |-> zt]

\* initial_guess from the first row of the form (lines 510-513)
FirstPairGuess(coeff, p) ==
    [S |-> coeff, Rotation |-> 0,
     E |-> RSub(p.X_prime, RMul(p.X, coeff)),
     N |-> RSub(p.Y_prime, RMul(p.Y, coeff)),
     H |-> RSub(p.Z_prime, RMul(p.Z, coeff))]

\* scipy's leastsq is not part of the repository.  The iterate it returns is
\* the request's input fit: an angle (the initial guess turned by it), or
\* None for some transform far from the guess
leastsq(guess, fit, ier) ==
    IF IsNone(fit)
    THEN [S |-> RInt(2), Rotation |-> 3, E |-> RInt(100), N |-> RInt(50), H |-> RInt(10),
          ier |-> ier]
    ELSE [S |-> guess.S, Rotation |-> Val(fit), E |-> guess.E, N |-> guess.N, H |-> guess.H,
          ier |-> ier]

\* the keyword arguments of the leastsq call; every other option (maxfev,
\* ftol, xtol, ...) is left to scipy's default
LeastsqOptions == [full_output |-> TRUE]

\* leastsq found a solution when its ier is 1, 2, 3 or 4
Converged(ier) == ier \in 1 .. 4

\* the page of a result: the target CRS and the map conversion just written
ResultPage(o) ==
    [template |-> "result.html", filename |-> "model.ifc",
     table_f |-> o.target_crs_epsg_code,
     table_g |-> [Eastings |-> o.eastings, Northings |-> o.northings,
                  OrthogonalHeight |-> o.orthogonal_height,
                  XAxis |-> o.x_axis, Scale |-> o.scale]]

\* lines 519-520: Rotation_degrees and rDeg
RotationDegrees(rot) == 10 * rot
NormalizeDegrees(deg) == deg - 360 * PyRound(deg, 360)

\* the direction (cos rot, sin rot) written as x_axis_abscissa, x_axis_ordinate:
\* the angle in [0, 2 pi)
XAxis(rot) == rot % (4 * QuarterTurn)

\* a response of calculate that is no result; every response of calculate
\* carries the session's Refl and rows as the handler read them
CalcFail(st, status, kind) ==
    Respond(st, st.session,
            [route |-> "calc", status |-> status, kind |-> kind, strategy |-> "none",
             Refl |-> Truthy(st.session.Refl), rows |-> st.session.rows])

\* lines 519-539: normalize the rotation, write the map conversion, respond.
\* s is the session the strategy leaves.
CalcFinish(st, strategy, sol, guess, data_points, s) ==
    LET written == [target_crs_epsg_code |-> s.target_epsg,
                    eastings |-> sol.E, northings |-> sol.N,
                    orthogonal_height |-> sol.H,
                    x_axis |-> XAxis(sol.Rotation), scale |-> sol.S]
    IN
    [uploads |-> st.uploads,
     outputs |-> Some(written),
     session |-> s,
     resp |-> [route |-> "calc", status |-> 200, kind |-> "result",
               strategy |-> strategy,
               Refl |-> Truthy(st.session.Refl), rows |-> st.session.rows,
               coeff |-> Val(st.session.coeff),
               S_solution |-> sol.S, Rotation_solution |-> sol.Rotation,
               E_solution |-> sol.E, N_solution |-> sol.N, H_solution |-> sol.H,
               Rotation_degrees |-> RotationDegrees(sol.Rotation),
               rDeg |-> NormalizeDegrees(RotationDegrees(sol.Rotation)),
               target_epsg |-> s.target_epsg,
               initial_guess |-> guess, data_points |-> data_points,
               ier |-> IF "ier" \in DOMAIN sol THEN Some(sol.ier) ELSE None,
               page |-> ResultPage(written)]]

\* the anchor pair of line 426; its coordinates are whatever the session holds
AnchorDefined(s) ==
    \A k \in {"xt", "yt", "zt", "bx", "by", "bz"} : ~IsNone(s[k])

AnchorPoint(s) ==
    [X |-> Val(s.bx), Y |-> Val(s.by), Z |-> Val(s.bz),
     X_prime |-> Val(s.xt), Y_prime |-> Val(s.yt), Z_prime |-> Val(s.zt)]

\* faulty variant: a single row of the form solved in closed form although
\* the session holds an anchor
StrategyIgnoringAnchor(Refl, rows) ==
    IF rows = Some(1) THEN "closed_pair"
    ELSE IF rows = Some(0) THEN "closed_anchor"
    ELSE "leastsq"

\* lines 428, 448-449 and 465: which branch solves.  Refl is the truth value
\* of the session's Refl, rows the session's rows.
Strategy(Refl, rows) ==
    IF ~Refl /\ rows = Some(1) THEN "closed_pair"
    ELSE IF rows = Some(0) THEN "closed_anchor"
    ELSE "leastsq"

\* form is request.form as a sequence of rows (row i holds x{i-1}, ...), fit
\* is what leastsq returns if it is called
calculate(st, form, fit, ier) ==
    LET s == st.session
        coeff == s.coeff
        rows == s.rows
        Refl == Truthy(s.Refl)
        \* the rows of the form the strategy reads
        read == IF Strategy(Refl, rows) = "closed_pair" THEN 1 .. Min(1, Len(form))
                ELSE IF IsNone(rows) \/ Strategy(Refl, rows) = "closed_anchor" THEN {}
                ELSE 1 .. Min(Val(rows), Len(form))
        res ==
            IF IsNone(st.uploads) THEN CalcFail(st, 400, "Could not open IFC file")
            ELSE IF Strategy(Refl, rows) = "closed_pair"
            THEN \* closed form from the single explicit pair
                 IF IsNone(coeff) THEN CalcFail(st, 500, "TypeError")
                 ELSE IF Len(form) < 1 THEN CalcFail(st, 400, "BadRequestKeyError")
                 ELSE IF Unparsable(form[1]) THEN CalcFail(st, 500, "ValueError")
                 ELSE LET S == ClosedScale(Val(coeff))
                          rot == TrueNorthRotation(Val(st.uploads))
                          p == DataPoint(form[1])
                          t == ClosedPairTranslation(S, rot, p)
                      IN  CalcFinish(st, "closed_pair",
                                     [S |-> S, Rotation |-> rot, E |-> t.E, N |-> t.N, H |-> t.H],
                                     None, <<p>>,
                                     [s EXCEPT !.zt = Some(p.Z_prime), !.bz = Some(p.Z)])
            ELSE IF Strategy(Refl, rows) = "closed_anchor"
            THEN \* closed form from the anchor pair
                 IF IsNone(coeff) THEN CalcFail(st, 500, "TypeError")
                 ELSE IF ~Refl THEN CalcFail(st, 500, "UnboundLocalError")
                 ELSE IF ~AnchorDefined(s) THEN CalcFail(st, 500, "TypeError")
                 ELSE LET S == ClosedScale(Val(coeff))
                          rot == TrueNorthRotation(Val(st.uploads))
                          t == ClosedAnchorTranslation(S, rot, AnchorPoint(s))
                      IN  CalcFinish(st, "closed_anchor",
                                     [S |-> S, Rotation |-> rot, E |-> t.E, N |-> t.N, H |-> t.H],
                                     None, <<AnchorPoint(s)>>, s)
            ELSE IF IsNone(rows) THEN CalcFail(st, 500, "TypeError")
            ELSE IF \E i \in read : Unparsable(form[i])
            THEN CalcFail(st, 200, "Invalid input. Please enter only float values.")
            ELSE IF Len(form) < Val(rows) THEN CalcFail(st, 400, "BadRequestKeyError")
            ELSE IF IsNone(coeff) \/ (Refl /\ ~AnchorDefined(s)) THEN CalcFail(st, 500, "TypeError")
            ELSE \* least squares over the anchor (if any) and the rows of the form
                 LET explicit == [i \in 1 .. Val(rows) |-> DataPoint(form[i])]
                     data_points == IF Refl THEN <<AnchorPoint(s)>> \o explicit ELSE explicit
                     guess == IF Refl
                              THEN AnchorGuess(Val(coeff), Val(s.xt), Val(s.yt), Val(s.zt))
                              ELSE FirstPairGuess(Val(coeff), DataPoint(form[1]))
                 IN  CalcFinish(st, "leastsq", leastsq(guess, fit, ier), Some(guess), data_points, s)
    IN  [res EXCEPT !.resp = @ @@ [malformed |-> \E i \in read : Malformed(form[i])]]

(***************************************************************************)
(* InteractiveGeoreferencer (interactive_georeferencer.py).  The object    *)
(* after __init__ and show_building_view, and its event handlers as        *)
(* operators object -> object.  view is the figure that is open: its       *)
(* click handler and buttons are the ones connected.  config is the file   *)
(* generate_config writes, printed the message of the last handler.        *)
(***************************************************************************)
\* the vertices of the analysed model, and the positions a map click gives
Vertices == {1, 2}
MapPositions == {1, 2}
DefaultElevation == 540

NewGeoreferencer ==
    [selected_points |-> <<>>, target_points |-> <<>>, current_mode |-> "building",
     epsg_code |-> "EPSG:32643", view |-> "building", config |-> None,
     handler |-> "__init__", printed |-> ""]

\* a left click inside the axes of the building view selects the closest vertex
on_building_click(g, inaxes, button, closest_point) ==
    IF ~inaxes \/ button # 1 THEN [g EXCEPT !.handler = "on_building_click", !.printed = ""]
    ELSE [g EXCEPT !.selected_points = Append(@, closest_point),
                   !.handler = "on_building_click",
                   !.printed = IF Len(g.selected_points) + 1 >= 3
                               THEN "You have selected enough points!"
                               ELSE "Selected point"]

\* a left click inside the axes of the map view adds a target point
on_map_click(g, inaxes, button, xdata) ==
    IF ~inaxes \/ button # 1 THEN [g EXCEPT !.handler = "on_map_click", !.printed = ""]
    ELSE [g EXCEPT !.target_points = Append(@, <<xdata, DefaultElevation>>),
                   !.handler = "on_map_click",
                   !.printed = IF Len(g.target_points) + 1 >= Len(g.selected_points)
                               THEN "All points mapped!"
                               ELSE "Target point"]

\* faulty variant: the map view opens whatever the number of selected points
switch_to_map_view_unguarded(g) ==
    [g EXCEPT !.current_mode = "map", !.view = "map",
              !.handler = "switch_to_map_view", !.printed = "=== MAP VIEW ==="]

switch_to_map_view(g) ==
    IF Len(g.selected_points) < 3
    THEN [g EXCEPT !.handler = "switch_to_map_view",
                   !.printed = "Please select at least 3 points before proceeding to map view"]
    ELSE [g EXCEPT !.current_mode = "map", !.view = "map",
                   !.handler = "switch_to_map_view", !.printed = "=== MAP VIEW ==="]

clear_points(g) ==
    IF g.current_mode = "building"
    THEN [g EXCEPT !.selected_points = <<>>, !.view = "building",
                   !.handler = "clear_points",
                   !.printed = "Cleared all selected building points"]
    ELSE [g EXCEPT !.target_points = <<>>, !.view = "map",
                   !.handler = "clear_points",
                   !.printed = "Cleared all target geographic points"]

\* faulty variant: the test that the two lists match is missing
generate_config_unmatched(g) ==
    IF Len(g.selected_points) < 3 \/ Len(g.target_points) < 3
    THEN [g EXCEPT !.handler = "generate_config",
                   !.printed = "Error: Need at least 3 building points and 3 target points"]
    ELSE [g EXCEPT !.config = Some([epsg_code |-> g.epsg_code,
                                    building_points |-> g.selected_points,
                                    target_points |-> g.target_points]),
                   !.handler = "generate_config",
                   !.printed = "Configuration saved"]

generate_config(g) ==
    IF Len(g.selected_points) < 3 \/ Len(g.target_points) < 3
    THEN [g EXCEPT !.handler = "generate_config",
                   !.printed = "Error: Need at least 3 building points and 3 target points"]
    ELSE IF Len(g.selected_points) # Len(g.target_points)
    THEN [g EXCEPT !.handler = "generate_config",
                   !.printed = "Error: Number of building points must match number of target points"]
    ELSE [g EXCEPT !.config = Some([epsg_code |-> g.epsg_code,
                                    building_points |-> g.selected_points,
                                    target_points |-> g.target_points]),
                   !.handler = "generate_config",
                   !.printed = "Configuration saved"]

(***************************************************************************)
(* Requests.  A request applies a handler to the current state.            *)
(***************************************************************************)
Apply(r) ==
    /\ requests < MaxRequests
    /\ \E res \in {r} :
         /\ uploads' = res.uploads
         /\ outputs' = res.outputs
         /\ session' = res.session
         /\ resp' = res.resp
    /\ requests' = requests + 1
    /\ UNCHANGED georeferencer

\* a row of the form: model point p, target point q
Row(p, q) ==
    [x |-> p[1], y |-> p[2], z |-> p[3],
     x_prime |-> q[1], y_prime |-> q[2], z_prime |-> q[3]]

ShiftRow(r, k) ==
    [x |-> r.x + k, y |-> r.y, z |-> r.z + k,
     x_prime |-> r.x_prime, y_prime |-> r.y_prime + k, z_prime |-> r.z_prime]

\* a form of n rows that starts with row r
FormOf(r, n) == [i \in 1 .. n |-> ShiftRow(r, i - 1)]

NumInputs == {None} \cup {Some(n) : n \in -1 .. MaxRows}

(***************************************************************************)
(* Spec: every sequence of requests of one client, from an empty upload    *)
(* folder and an empty session.                                            *)
(***************************************************************************)
Models ==
    {SurveyedModel(Some(<<Unit7, 0>>)), PlainModel(None), GridModel(None),
     GeoreferencedModel(None)}

\* the codes a client sends (99999 resolves to nothing)
EpsgInputs == {32643, 4326, 99999}

Forms == {FormOf(Row(<<1, 2, 3>>, <<4, 6, 5>>), n) : n \in 0 .. MaxRows}

Fits == {Some(0)}
\* the ier leastsq returns with it
Iers == {1}

UploadRequest ==
    \E file \in {None} \cup {Some(m) : m \in Models} : Apply(upload_file(Cur, file))

ConvertRequest ==
    \/ Apply(convert_crs(Cur, "GET", None))
    \/ \E epsg \in {None} \cup {Some(c) : c \in EpsgInputs} :
         Apply(convert_crs(Cur, "POST", epsg))

SurveyRequest ==
    \/ Apply(survey_points(Cur, "GET", "", None))
    \/ \E box \in {"1", "3"}, Num \in NumInputs :
         Apply(survey_points(Cur, "POST", box, Num))

AutoGeoreferenceRequest ==
    \E epsg \in EpsgInputs, nb \in 0 .. MaxAuto :
      \E nm \in 0 .. MaxAuto :
        Apply(auto_georeference(Cur, epsg, nb, nm))

CalculateRequest ==
    \E form \in Forms, fit \in Fits, ier \in Iers : Apply(calculate(Cur, form, fit, ier))

Init ==
    /\ uploads = None
    /\ outputs = None
    /\ session = EmptySession
    /\ resp = [route |-> "", status |-> 0, kind |-> "none"]
    /\ requests = 0
    /\ georeferencer = NewGeoreferencer

Next ==
    \/ UploadRequest
    \/ ConvertRequest
    \/ SurveyRequest
    \/ AutoGeoreferenceRequest
    \/ CalculateRequest

Spec == Init /\ [][Next]_vars

(***************************************************************************)
(* SolveSpec: the solver on a wide range of models, target systems and     *)
(* coordinates.  It starts in the states a client reaches by uploading a   *)
(* model, posting a target EPSG code and posting the survey form, and      *)
(* continues with calculate requests.                                      *)
(***************************************************************************)
SolveModels ==
    {SurveyedModel(t) : t \in TrueNorths} \cup {PlainModel(t) : t \in TrueNorths}

SolveEpsg == {32643, 2222}

FormPoints == {<<c + 1, c + 2, c + 3>> : c \in 0 .. MaxCoord}
TargetPoints == FormPoints \cup {<<4, 6, 5>>}

SolveForms ==
    {FormOf(Row(p, q), n) : p \in FormPoints, q \in TargetPoints, n \in 0 .. MaxRows}

\* Rotation_solution values leastsq may return: 0, 370, -200, -180 and 540 degrees
LsqAngles == {0, 37, -20, -18, 54}
SolveFits == {None} \cup {Some(a) : a \in LsqAngles}
\* its ier: 1 (converged), 5 (maxfev calls reached)
SolveIers == {1, 5}

SolveInit ==
    \E m \in SolveModels, c \in SolveEpsg, box \in {"1", "3"}, Num \in 0 .. MaxRows :
      \E a \in {upload_file(Fresh, Some(m))} :
        \E b \in {convert_crs(a, "POST", Some(c))} :
          \E d \in {survey_points(b, "POST", box, Some(Num))} :
            /\ uploads = d.uploads
            /\ outputs = d.outputs
            /\ session = d.session
            /\ resp = d.resp
            /\ requests = 3
            /\ georeferencer = NewGeoreferencer

\* the calculate request that follows the survey form
SolveNext ==
    /\ resp.route = "survey"
    /\ \E form \in SolveForms, fit \in SolveFits, ier \in SolveIers :
         Apply(calculate(Cur, form, fit, ier))

SolveSpec == SolveInit /\ [][SolveNext]_vars

(***************************************************************************)
(* FormSpec: the calculate request with a form in which one z_prime field  *)
(* holds a text that is no decimal number.                                 *)
(***************************************************************************)
\* what float() takes as nan and inf, and a text it rejects
Texts == {"nan", "inf", "abc"}

\* row r with the text t typed into z_prime
Garble(r, t) ==
    [x |-> r.x, y |-> r.y, z |-> r.z,
     x_prime |-> r.x_prime, y_prime |-> r.y_prime, z_prime_text |-> t]

GarbledForms ==
    UNION {{[f EXCEPT ![i] = Garble(f[i], t)] : i \in 1 .. Len(f), t \in Texts} :
           f \in SolveForms}

FormNext ==
    /\ resp.route = "survey"
    /\ \E form \in GarbledForms, fit \in SolveFits, ier \in Iers :
         Apply(calculate(Cur, form, fit, ier))

FormSpec == SolveInit /\ [][FormNext]_vars

(***************************************************************************)
(* POST /show/model.ifc: the position and scale handed to the 3D viewer.   *)
(* The handler reads model_georeferenced.ifc when calculate has written    *)
(* it, else the uploaded model.                                            *)
(***************************************************************************)
\* a model that declares a map conversion with the given Scale and target
\* CRS and no XAxisAbscissa/XAxisOrdinate, in metres or with an SI prefix
DeclaredModel(Scale, Prefix, TargetCRS) ==
    IfcModel("IFC4", None, "IfcAxis2Placement3D", <<0, 0, 0>>,
             Prefix, Some("METRE"), None,
             Some([Scale |-> Scale, TargetCRS |-> TargetCRS]))

\* Eastings, Northings and OrthogonalHeight of every declared conversion
DeclaredTranslation ==
    [Eastings |-> RInt(100), Northings |-> RInt(50), OrthogonalHeight |-> RInt(10)]

\* IfcProject's WorldCoordinateSystem.Location.Coordinates, the same in
\* every model, and the placement of the first product with a representation
WorldOrigin == <<RInt(2), RInt(3), RInt(1)>>
ProductLocation == <<RInt(5), RInt(7)>>

\* get_mapconversion_crs of the file the handler opens: the file calculate
\* wrote when there is one, else the upload
DeclaredConversion(m) ==
    IF IsNone(m.MapConversion) THEN None
    ELSE Some([Scale |-> Val(m.MapConversion).Scale,
               TargetCRS |-> Some(Val(m.MapConversion).TargetCRS),
               Eastings |-> DeclaredTranslation.Eastings,
               Northings |-> DeclaredTranslation.Northings,
               OrthogonalHeight |-> DeclaredTranslation.OrthogonalHeight,
               XAxis |-> None])

WrittenConversion(o) ==
    Some([Scale |-> Some(o.scale), TargetCRS |-> o.target_crs_epsg_code,
          Eastings |-> o.eastings, Northings |-> o.northings,
          OrthogonalHeight |-> o.orthogonal_height, XAxis |-> Some(o.x_axis)])

ShowFail(st, kind) ==
    Respond(st, st.session, [route |-> "show", status |-> 500, kind |-> kind])

visualize(st) ==
    LET conv == IF ~IsNone(st.outputs) THEN WrittenConversion(Val(st.outputs))
                ELSE IF IsNone(st.uploads) THEN None
                ELSE DeclaredConversion(Val(st.uploads))
    IN
    IF IsNone(st.outputs) /\ IsNone(st.uploads) THEN ShowFail(st, "OSError")
    ELSE IF IsNone(conv) THEN ShowFail(st, "AttributeError")
    ELSE
    LET c == Val(conv)
        org == WorldOrigin
        S == IF IsNone(c.Scale) THEN ROne ELSE Val(c.Scale)
        rot == IF IsNone(c.XAxis) THEN 0 ELSE Val(c.XAxis)
        A == Cos(rot)
        B == Sin(rot)
        scaleError == Truthy(st.session.scaleError)
        eff == st.session.coeff
    IN
    IF IsNone(c.TargetCRS) \/ Val(c.TargetCRS) \notin EpsgRegistry
    THEN ShowFail(st, "CRSError")
    ELSE IF IsNone(eff) THEN ShowFail(st, "TypeError")
    ELSE
    LET Su == IF scaleError THEN Val(eff) ELSE S
        E == IF scaleError THEN RMul(c.Eastings, Su) ELSE c.Eastings
        N == IF scaleError THEN RMul(c.Northings, Su) ELSE c.Northings
        ortz == IF scaleError THEN RMul(c.OrthogonalHeight, Su) ELSE c.OrthogonalHeight
        xx0 == RAdd(RSub(RMul(RMul(Su, org[1]), A), RMul(RMul(Su, org[2]), B)), E)
        yy0 == RAdd(RAdd(RMul(RMul(Su, org[2]), A), RMul(RMul(Su, org[2]), B)), N)
        atZero == xx0 = RZero /\ yy0 = RZero
        xx == IF atZero THEN RAdd(xx0, RMul(ProductLocation[1], Val(eff))) ELSE xx0
        yy == IF atZero THEN RAdd(yy0, RMul(ProductLocation[2], Val(eff))) ELSE yy0
        Snew == IF scaleError THEN S ELSE RDiv(S, Val(eff))
    IN
    Respond(st, [st.session EXCEPT !.scaleError = IF scaleError THEN None ELSE @],
            [route |-> "show", status |-> 200, kind |-> "view",
             scaleError |-> scaleError, declared |-> c, eff |-> Val(eff),
             S |-> Su, E |-> E, N |-> N, ortz |-> ortz,
             xx |-> xx, yy |-> yy, moved |-> atZero, Scale |-> Snew])

(***************************************************************************)
(* UnitSpec: unit conversion over the unit names a model and a target      *)
(* system can carry.  A client uploads models that differ in their length  *)
(* unit and posts target EPSG codes.                                       *)
(***************************************************************************)
\* a site without reference point whose length unit is Prefix + Name
UnitModel(Prefix, Name) ==
    IfcModel("IFC4", None, "IfcAxis2Placement3D", <<0, 0, 0>>, Prefix, Name, None, None)

UnitPrefixes == {None, Some("MILLI"), Some("CENTI"), Some("KILO")}

UnitNamePool ==
    {None, Some("METRE"), Some("Metre"), Some("metre"), Some("METER"), Some("INCH"),
     Some("FOOT"), Some("YARD"), Some("MILE"), Some("NAUTICAL_MILE"), Some("FURLONG")}

UnitModels == {UnitModel(p, n) : p \in UnitPrefixes, n \in UnitNamePool}

UnitEpsg == EpsgRegistry \cup {99999}

UnitUpload == \E m \in UnitModels : Apply(upload_file(Cur, Some(m)))

UnitConvert == \E epsg \in UnitEpsg : Apply(convert_crs(Cur, "POST", Some(epsg)))

UnitNext == UnitUpload \/ UnitConvert

UnitSpec == Init /\ [][UnitNext]_vars

(***************************************************************************)
(* ViewSpec: models that declare a map conversion, uploaded, converted and *)
(* shown.  Nothing is solved, so the viewer reads the uploaded model.      *)
(***************************************************************************)
DeclaredScales == {None, Some(ROne), Some(Rat(3, 2)), Some(Rat(1, 2)), Some(RInt(1000))}
DeclaredPrefixes == {None, Some("MILLI")}
DeclaredTargets == {32643, 2222, 4326}
DeclaredModels ==
    {DeclaredModel(sc, p, t) : sc \in DeclaredScales, p \in DeclaredPrefixes,
                               t \in DeclaredTargets}

ViewUpload ==
    \E m \in DeclaredModels \cup {PlainModel(None)} : Apply(upload_file(Cur, Some(m)))
ViewConvert == \E epsg \in EpsgInputs : Apply(convert_crs(Cur, "POST", Some(epsg)))
VisualizeRequest == Apply(visualize(Cur))

ViewNext == ViewUpload \/ ViewConvert \/ VisualizeRequest
ViewSpec == Init /\ [][ViewNext]_vars

(***************************************************************************)
(* ShowSpec: the viewer after a solve.  From the states SolveSpec starts   *)
(* in, a client posts calculate, whose fit is turned by a multiple of a    *)
(* quarter turn, and opens the viewer, which reads the file just written.  *)
(***************************************************************************)
\* Rotation_solution values leastsq may return: 0, 90, 180 and 270 degrees
ShowFits == {Some(k * QuarterTurn) : k \in 0 .. 3}

ShowCalculate ==
    \E form \in SolveForms, fit \in ShowFits, ier \in Iers :
      Apply(calculate(Cur, form, fit, ier))

ShowNext == ShowCalculate \/ VisualizeRequest
ShowSpec == SolveInit /\ [][ShowNext]_vars

(***************************************************************************)
(* AutoSpec: the automatic workflow.  A client uploads models, posts point *)
(* lists of any two lengths and opens the pre-filled form.                 *)
(***************************************************************************)
DirectGeoreferenceRequest == Apply(direct_georeference(Cur))

AutoNext == UploadRequest \/ AutoGeoreferenceRequest \/ DirectGeoreferenceRequest
AutoSpec == Init /\ [][AutoNext]_vars

(***************************************************************************)
(* ToolSpec: every sequence of clicks and button presses on the desktop    *)
(* tool.  An event reaches the handlers of the open figure only; the       *)
(* 'Next: Map View' button exists in the building view only.               *)
(***************************************************************************)
Event(g) ==
    /\ georeferencer' = g
    /\ UNCHANGED <<uploads, outputs, session, resp, requests>>

BuildingClick ==
    /\ georeferencer.view = "building"
    /\ Len(georeferencer.selected_points) < MaxPoints
    /\ \E inaxes \in BOOLEAN, button \in {1, 3}, v \in Vertices :
         Event(on_building_click(georeferencer, inaxes, button, v))

MapClick ==
    /\ georeferencer.view = "map"
    /\ Len(georeferencer.target_points) < MaxPoints
    /\ \E inaxes \in BOOLEAN, button \in {1, 3}, x \in MapPositions :
         Event(on_map_click(georeferencer, inaxes, button, x))

NextButton ==
    /\ georeferencer.view = "building"
    /\ Event(switch_to_map_view(georeferencer))

ClearButton == Event(clear_points(georeferencer))

GenerateButton == Event(generate_config(georeferencer))

ToolNext == BuildingClick \/ MapClick \/ NextButton \/ ClearButton \/ GenerateButton
ToolSpec == Init /\ [][ToolNext]_vars

(***************************************************************************)
(* Properties.  A response of calculate carries what the handler read and  *)
(* computed, so each property is a predicate on the state after a request. *)
(***************************************************************************)
IsCalc == resp.route = "calc"
Solved == IsCalc /\ resp.kind = "result"
ClosedForm == Solved /\ resp.strategy \in {"closed_pair", "closed_anchor"}

\* the pairs the solve has: the rows of the form it reads and the anchor
ExplicitPairs == IF IsNone(resp.rows) THEN 0 ELSE Max(Val(resp.rows), 0)
AnchorPairs == IF resp.Refl THEN 1 ELSE 0
TotalPairs == ExplicitPairs + AnchorPairs

\* the true north the solved model declares
DeclaredNorth == Val(uploads).TrueNorth

\* the angle of an axis direction, atan2(y, x) in units of pi/18
AxisAngle(y, x) ==
    CASE y = 0 /\ x > 0 -> 0
      [] y > 0 /\ x = 0 -> 9
      [] y = 0 /\ x < 0 -> 18
      [] y < 0 /\ x = 0 -> -9

OnAxis(v) == (v[1] = 0) # (v[2] = 0)

Residuals ==
    equations(resp.S_solution, resp.Rotation_solution, resp.E_solution,
              resp.N_solution, resp.H_solution, resp.data_points[1])

IdentityPair ==
    /\ Len(resp.data_points) = 1
    /\ resp.data_points[1].X = resp.data_points[1].X_prime
    /\ resp.data_points[1].Y = resp.data_points[1].Y_prime
    /\ resp.data_points[1].Z = resp.data_points[1].Z_prime
    /\ resp.coeff = ROne

IdentityTransform ==
    /\ resp.S_solution = ROne
    /\ resp.Rotation_solution = 0
    /\ resp.E_solution = RZero
    /\ resp.N_solution = RZero
    /\ resp.H_solution = RZero

\* C1: every response of calculate comes from exactly one of the closed
\* form, the least-squares fit, or a failure; the closed form solves only
\* when the pairs number exactly one (the anchor with no row of the form, or
\* one row without anchor), the least-squares fit solves exactly when rows
\* of the form come in addition to that, and with no row and no anchor
\* calculate produces no result.
StrategyMatchesPairs ==
    IsCalc =>
      /\ resp.strategy \in {"closed_pair", "closed_anchor", "leastsq", "none"}
      /\ Solved <=> resp.strategy # "none"
      /\ resp.strategy = "closed_anchor" => resp.Refl /\ ExplicitPairs = 0
      /\ resp.strategy = "closed_pair" => ~resp.Refl /\ ExplicitPairs = 1
      /\ ClosedForm => TotalPairs = 1
      /\ resp.strategy = "leastsq" => ExplicitPairs >= 1 /\ TotalPairs >= 2
      /\ Solved /\ ExplicitPairs >= 1 /\ TotalPairs >= 2 => resp.strategy = "leastsq"
      /\ Solved /\ resp.strategy = "leastsq" => Len(resp.data_points) = TotalPairs
      /\ TotalPairs = 0 => ~Solved

\* a least-squares solve over the anchor and a row of the form
LeastSquaresWithAnchorReached ==
    Solved /\ resp.strategy = "leastsq" /\ resp.Refl /\ ExplicitPairs = 1

\* C2: a calculate request on an uploaded model with a coefficient, no row
\* of the form and no anchor fails with InsufficientData.
ZeroPairsFailWithInsufficientData ==
    IsCalc /\ ~IsNone(uploads) /\ ~IsNone(session.coeff) /\ TotalPairs = 0
      => resp.kind = "InsufficientData"

\* C3: calculate computes a transform only when the target CRS it solves
\* for has been confirmed valid and projected.
SolveOnlyAfterValidatedCrs ==
    Solved =>
      /\ ~IsNone(resp.target_epsg)
      /\ Val(resp.target_epsg) \in EpsgRegistry
      /\ CrsOf(Val(resp.target_epsg)).is_projected

\* C4: in both closed forms the scale is the inverse of the coefficient:
\* S * coeff = 1.
ClosedFormScaleIsInverse ==
    ClosedForm => RMul(resp.S_solution, resp.coeff) = ROne

\* a closed form on a model whose unit differs from the map's
ClosedFormScaleReached ==
    ClosedForm /\ resp.strategy = "closed_anchor" /\ resp.coeff # ROne

\* C5, as stated: the closed-form rotation is atan2(second component, first
\* component) of the declared true north.
RotationFromSecondOverFirst ==
    ClosedForm /\ ~IsNone(DeclaredNorth) /\ OnAxis(Val(DeclaredNorth))
      => resp.Rotation_solution = AxisAngle(Val(DeclaredNorth)[2], Val(DeclaredNorth)[1])

\* C5, amended: the closed-form rotation is atan2(first component, second
\* component) of the declared true north, the angle from the model's Y axis.
RotationFromFirstOverSecond ==
    ClosedForm /\ ~IsNone(DeclaredNorth) /\ OnAxis(Val(DeclaredNorth))
      => resp.Rotation_solution = AxisAngle(Val(DeclaredNorth)[1], Val(DeclaredNorth)[2])

\* a closed form on a model whose true north is the model's X axis
TrueNorthAlongXReached ==
    ClosedForm /\ DeclaredNorth = Some(<<Unit7, 0>>)

\* C6: a closed form on a model that declares no true north has rotation
\* zero, the rotation of the direction (0, 1).
AbsentTrueNorthGivesZeroRotation ==
    ClosedForm /\ IsNone(DeclaredNorth)
      => /\ resp.Rotation_solution = 0
         /\ resp.Rotation_solution = AxisAngle(0, 1)

\* a closed form on a model without true north
AbsentTrueNorthSolved ==
    ClosedForm /\ IsNone(DeclaredNorth) /\ resp.strategy = "closed_pair"

\* C7: the transform of either closed form maps its single pair exactly:
\* the three residuals of the pair are zero.
ClosedFormResidualsZero ==
    ClosedForm => Len(resp.data_points) = 1 /\ Residuals = <<RZero, RZero, RZero>>

\* a closed form from the anchor with a quarter turn and a scale that is not 1
AnchorClosedFormTurnedReached ==
    /\ ClosedForm
    /\ resp.strategy = "closed_anchor"
    /\ resp.Rotation_solution = QuarterTurn
    /\ resp.S_solution # ROne

\* C8: the least-squares fit starts from scale 1/coeff; with an anchor from
\* a translation that maps the anchor pair exactly, without one from
\* rotation zero.
SeedIsClosedFormEstimate ==
    Solved /\ resp.strategy = "leastsq" =>
      LET g == Val(resp.initial_guess)
      IN  /\ RMul(g.S, resp.coeff) = ROne
          /\ resp.Refl =>
               equations(g.S, g.Rotation, g.E, g.N, g.H, resp.data_points[1])
                 = <<RZero, RZero, RZero>>
          /\ ~resp.Refl => g.Rotation = 0

\* C9: the normalized rotation differs from the rotation by a multiple of
\* 360 degrees and lies in (-180, 180].
NormalizedIntoHalfOpenInterval ==
    Solved =>
      /\ (resp.rDeg - resp.Rotation_degrees) % 360 = 0
      /\ -180 < resp.rDeg
      /\ resp.rDeg <= 180

ModelUnit ==
    LET m == Val(uploads)
    IN  IF IsNone(m.Name) THEN None
        ELSE IF IsNone(m.Prefix) THEN m.Name
        ELSE Some(Val(m.Prefix) \o Val(m.Name))

ModelUnitSupported == ~IsNone(ModelUnit) /\ Val(ModelUnit) \in UnitNames

\* a POST to convert for a model and a code that resolves to a projected system
ConvertOfProjected ==
    /\ resp.route = "convert"
    /\ ~IsNone(uploads)
    /\ ~IsNone(session.target_epsg)
    /\ Val(session.target_epsg) \in EpsgRegistry
    /\ CrsOf(Val(session.target_epsg)).is_projected

TargetUnit == CrsOf(Val(session.target_epsg)).unit_name

ConvertAccepted == resp.route = "convert" /\ resp.kind = "redirect_survey"

\* the failure the canonical unit table prescribes for the name u
UnsupportedUnit(u) == "UnsupportedUnit(" \o u \o ")"

\* C11: a convert request on a supported pair of unit names is accepted, and
\* an accepted convert request leaves the coefficient
\* metersPerUnit(model unit) / metersPerUnit(target unit), which is positive.
CoefficientIsUnitRatio ==
    /\ ConvertOfProjected /\ ModelUnitSupported /\ TargetUnit \in UnitNames
         => ConvertAccepted
    /\ ConvertAccepted =>
         /\ ModelUnitSupported
         /\ TargetUnit \in UnitNames
         /\ RMul(Val(session.coeff), MetersPerUnit(TargetUnit))
              = MetersPerUnit(Val(ModelUnit))
         /\ Val(session.coeff)[1] > 0
         /\ Val(session.coeff)[2] > 0

\* a millimetre model converted for a system in feet
MillimetreToFootConverted ==
    /\ ConvertAccepted
    /\ ModelUnit = Some("MILLIMETRE")
    /\ TargetUnit = "foot"
    /\ session.coeff = Some(<<5, 1524>>)

\* C12: a convert request with a unit name outside the table fails with
\* UnsupportedUnit naming that unit, and the session holds no coefficient.
UnsupportedUnitIsNamed ==
    ConvertOfProjected /\ ~(ModelUnitSupported /\ TargetUnit \in UnitNames)
      => /\ resp.error \in
              {UnsupportedUnit(u) :
                 u \in {TargetUnit} \cup (IF IsNone(ModelUnit) THEN {} ELSE {Val(ModelUnit)})}
         /\ IsNone(session.coeff)

\* C13: the model unit names "Metre", "METRE" and "metre" all convert, with
\* the factor of the metre.
CasingResolvesIdentically ==
    /\ ConvertOfProjected
    /\ ModelUnit \in {Some("Metre"), Some("METRE"), Some("metre")}
    /\ TargetUnit \in UnitNames
    => /\ ConvertAccepted
       /\ RMul(Val(session.coeff), MetersPerUnit(TargetUnit)) = ROne

CrsErrors == {"CRS is not available.", "CRS is not projected (geographic)."}

\* C14: a convert request whose code does not resolve, or resolves to a
\* geographic system, is answered with the matching failure and leaves the
\* session without coefficient and anchor target for that code; calculate
\* never solves for a target that is not a projected system.
RejectedCrsLeavesNothing ==
    /\ resp.route = "convert" /\ resp.error \in CrsErrors
         => /\ resp.error = "CRS is not available."
                 <=> Val(session.target_epsg) \notin EpsgRegistry
            /\ IsNone(session.coeff)
            /\ IsNone(session.xt) /\ IsNone(session.yt) /\ IsNone(session.zt)
    /\ Solved /\ ~IsNone(resp.target_epsg)
         => /\ Val(resp.target_epsg) \in EpsgRegistry
            /\ CrsOf(Val(resp.target_epsg)).is_projected

\* C15: calculate uses an anchor only for a model that has a reference point
\* and a local placement, and the anchor's model point is that placement's
\* origin.
AnchorResolvedFromPlacement ==
    Solved /\ resp.Refl =>
      LET m == Val(uploads)
          a == resp.data_points[1]
      IN  /\ ~IsNone(m.Ref)
          /\ m.placement = "IfcAxis2Placement3D"
          /\ <<a.X, a.Y, a.Z>> = <<RInt(m.origin[1]), RInt(m.origin[2]), RInt(m.origin[3])>>

\* C20: whenever infoExt reports an error to upload, convert or survey, the
\* response shows it and the workflow stops there.
InfoExtErrorsSurfaced ==
    /\ resp.route \in {"upload", "convert", "survey"}
    /\ "error" \in DOMAIN resp
    /\ resp.error # ""
    => /\ resp.shown
       /\ resp.kind \notin {"redirect_survey", "redirect_calculate", "result_georeferenced"}

\* the declared scale of the uploaded model, 1 when the attribute is absent
DeclaredScale ==
    LET Scale == Val(Val(uploads).MapConversion).Scale
    IN  IF IsNone(Scale) THEN ROne ELSE Val(Scale)

UploadOfDeclared ==
    /\ resp.route = "upload"
    /\ resp.kind = "result_georeferenced"

\* C16: an upload of a model that declares a map conversion reports the
\* scale/unit conflict exactly when the declared scale is not 1 and the unit
\* coefficient is not 1; it reports none when either of them equals 1.
ConflictIffBothNonUnity ==
    UploadOfDeclared
        => (resp.conflict <=> (DeclaredScale # ROne /\ Val(session.coeff) # ROne))

ShownAfterConflict ==
    /\ resp.route = "show"
    /\ resp.status = 200
    /\ resp.scaleError

\* C17: after a scale/unit conflict was reported, the viewer positions the
\* model with the declared scale and the declared translation: the unit
\* coefficient is not substituted for the scale and the translation is not
\* rescaled.
ConflictLeavesDeclaredValues ==
    ShownAfterConflict
        => /\ resp.S = DeclaredScale
           /\ resp.E = DeclaredTranslation.Eastings
           /\ resp.N = DeclaredTranslation.Northings
           /\ resp.ortz = DeclaredTranslation.OrthogonalHeight

NotConverged ==
    /\ Solved
    /\ resp.strategy = "leastsq"
    /\ ~Converged(Val(resp.ier))

\* C18: a least-squares result that did not converge is still returned, and
\* its page is not the page of the plain result: it carries a sign that the
\* fit did not converge.
NonConvergenceIsFlagged ==
    NotConverged => resp.page # ResultPage(Val(outputs))

\* C19: a calculate request that reads a pair with a non-finite or
\* non-numeric coordinate gives no result and leaves the written model
\* and the session as they were, whichever strategy the session selects.
MalformedIsRejected ==
    [][(resp'.route = "calc" /\ resp'.malformed)
          => /\ resp'.kind # "result"
             /\ outputs' = outputs
             /\ session' = session]_vars

\* a result for a model with a supported unit and a target that resolves to
\* a projected system with a supported unit
SolvedForOwnTarget ==
    /\ Solved
    /\ ModelUnitSupported
    /\ ~IsNone(resp.target_epsg)
    /\ Val(resp.target_epsg) \in EpsgRegistry
    /\ CrsOf(Val(resp.target_epsg)).is_projected
    /\ CrsOf(Val(resp.target_epsg)).unit_name \in UnitNames

\* C21: the transform calculate produces for the model in the upload folder
\* rests on that model's own coefficient and anchor for its target CRS, not
\* on values an earlier workflow of the session left behind.
SolveUsesOwnInputs ==
    SolvedForOwnTarget =>
      LET m == Val(uploads)
          code == Val(resp.target_epsg)
          a == resp.data_points[1]
      IN  /\ RMul(resp.coeff, MetersPerUnit(CrsOf(code).unit_name))
               = MetersPerUnit(Val(ModelUnit))
          /\ (resp.Refl /\ ~IsNone(m.Ref))
               => /\ <<a.X_prime, a.Y_prime, a.Z_prime>> = Transform(code, Val(m.Ref))
                  /\ <<a.X, a.Y, a.Z>>
                       = <<RInt(m.origin[1]), RInt(m.origin[2]), RInt(m.origin[3])>>

\* C22: the least-squares refinement runs under an explicitly set cap on
\* its iterations (maxfev) and an explicitly set convergence tolerance (ftol).
RefinementExplicitlyBounded ==
    Solved /\ resp.strategy = "leastsq"
        => {"maxfev", "ftol"} \subseteq DOMAIN LeastsqOptions

\* a response of upload, convert or survey that carries a non-empty error
FailedNormalization ==
    /\ resp.route \in {"upload", "convert", "survey"}
    /\ "error" \in DOMAIN resp
    /\ resp.error # ""

\* C23: a request whose normalisation returns an error leaves the session's
\* coeff, xt, yt and zt as they were: they are stored only by a call that
\* returns no error.
FailureKeepsStoredValues ==
    [][FailedNormalization'
          => /\ session'.coeff = session.coeff
             /\ session'.xt = session.xt
             /\ session'.yt = session.yt
             /\ session'.zt = session.zt]_vars

\* a rejected code after an accepted one: the earlier values are still there
EarlierValuesKept ==
    /\ FailedNormalization
    /\ resp.route = "convert"
    /\ ~IsNone(session.coeff)
    /\ ~IsNone(session.xt)

\* a code (or absent code) that infoExt accepts as target
PassesCrsValidation(code) ==
    /\ ~IsNone(code)
    /\ Val(code) \in EpsgRegistry
    /\ CrsOf(Val(code)).is_projected

\* C24: the session never holds a target code that infoExt rejected, and
\* the code calculate has written into the model passed that validation.
TargetAlwaysValidated ==
    /\ ~IsNone(session.target_epsg) => PassesCrsValidation(session.target_epsg)
    /\ ~IsNone(outputs) => PassesCrsValidation(Val(outputs).target_crs_epsg_code)

\* C25: when calculate runs with the session's Refl true, the six anchor
\* coordinates are defined, and they are the local origin and the projected
\* reference point of the model in the upload folder for the session's
\* target CRS.
AnchorDefinedWhenAvailable ==
    IsCalc /\ resp.Refl =>
      /\ AnchorDefined(session)
      /\ ~IsNone(uploads)
      /\ ~IsNone(Val(uploads).Ref)
      /\ PassesCrsValidation(session.target_epsg)
      /\ <<Val(session.xt), Val(session.yt), Val(session.zt)>>
           = Transform(Val(session.target_epsg), Val(Val(uploads).Ref))
      /\ session.bx = local_trans(session, Val(uploads)).bx
      /\ session.by = local_trans(session, Val(uploads)).by
      /\ session.bz = local_trans(session, Val(uploads)).bz

\* the survey request just answered discarded the reference point
Discarded == resp.route = "survey" /\ resp.discard

\* C26: after a survey request that discards the reference point, a further
\* survey request for the same model still works without the anchor, and a
\* calculate request fits no anchor pair and solves only with at least one
\* explicit pair.
DiscardHoldsUntilCalculate ==
    [][(Discarded /\ uploads' = uploads)
          => /\ (resp'.route = "survey" /\ "Refl" \in DOMAIN resp') => ~resp'.Refl
             /\ resp'.route = "calc"
                  => /\ ~resp'.Refl
                     /\ resp'.kind = "result" => Val(resp'.rows) >= 1]_vars

\* the complete pairs of the two lists auto_georeference stored last
CompletePairs ==
    Min(Val(session.auto_building_points), Val(session.auto_map_points))

\* C27: after auto_georeference the session's rows is the number of complete
\* pairs stored with it, and direct_georeference offers exactly that many
\* pairs and answers 'No points to process' when there is none.
RowsEqualsStoredPairs ==
    /\ resp.route = "auto_georeference" /\ resp.kind = "success"
         => Val(session.rows) = CompletePairs
    /\ resp.route = "direct_georeference" /\ resp.status # 500
         => /\ resp.kind = "No points to process" <=> CompletePairs = 0
            /\ resp.kind = "form" => resp.Num = CompletePairs

ConfigErrors ==
    {"Error: Need at least 3 building points and 3 target points",
     "Error: Number of building points must match number of target points"}

\* C28: generate_config writes the configuration exactly when the selected
\* building points and the target points are equally many and at least 3;
\* otherwise it prints an error and leaves the file as it was.  The two
\* lists of a written configuration have the same length.
ConfigOnlyForMatchedPoints ==
    /\ [](~IsNone(georeferencer.config)
            => /\ Len(Val(georeferencer.config).building_points)
                    = Len(Val(georeferencer.config).target_points)
               /\ Len(Val(georeferencer.config).building_points) >= 3)
    /\ [][georeferencer'.handler = "generate_config"
            => IF /\ Len(georeferencer.selected_points) = Len(georeferencer.target_points)
                  /\ Len(georeferencer.selected_points) >= 3
               THEN /\ ~IsNone(georeferencer'.config)
                    /\ Val(georeferencer'.config).building_points
                         = georeferencer.selected_points
                    /\ Val(georeferencer'.config).target_points
                         = georeferencer.target_points
               ELSE /\ georeferencer'.config = georeferencer.config
                    /\ georeferencer'.printed \in ConfigErrors]_vars

\* a configuration has just been written
ConfigWritten ==
    /\ georeferencer.handler = "generate_config"
    /\ ~IsNone(georeferencer.config)

\* C29: the mode starts as 'building' and changes only from 'building' to
\* 'map', through switch_to_map_view with at least 3 building points
\* selected; clear_points keeps the mode and empties only the list of the
\* current mode; in 'map' mode at least 3 building points are selected.
ModeOnlyAdvancesToMap ==
    /\ [](/\ georeferencer.handler = "__init__" => georeferencer.current_mode = "building"
          /\ georeferencer.current_mode = "map" => Len(georeferencer.selected_points) >= 3)
    /\ [][/\ georeferencer'.current_mode # georeferencer.current_mode
               => /\ georeferencer.current_mode = "building"
                  /\ georeferencer'.current_mode = "map"
                  /\ georeferencer'.handler = "switch_to_map_view"
                  /\ Len(georeferencer.selected_points) >= 3
          /\ georeferencer'.handler = "clear_points"
               => /\ georeferencer'.current_mode = georeferencer.current_mode
                  /\ IF georeferencer.current_mode = "building"
                     THEN /\ georeferencer'.selected_points = <<>>
                          /\ georeferencer'.target_points = georeferencer.target_points
                     ELSE /\ georeferencer'.target_points = <<>>
                          /\ georeferencer'.selected_points = georeferencer.selected_points]_vars

\* the target points have just been cleared in the map view
ClearedInMapMode ==
    /\ georeferencer.current_mode = "map"
    /\ georeferencer.handler = "clear_points"

(***************************************************************************)
(* C30: the map position visualize computes for the model origin (X, Y)    *)
(* is the image of the origin under the similarity transform the solver    *)
(* fits, with the Scale S, rotation, Eastings E and Northings N of the map  *)
(* conversion the handler read: easting = S cos X - S sin Y + E and        *)
(* northing = S sin X + S cos Y + N, i.e. the solver's residuals eq1 and   *)
(* eq2 vanish at the pair (origin, position).  A position at (0, 0), which *)
(* the handler moves to the first product, is left out.                    *)
(***************************************************************************)
OriginUnderFittedTransform ==
    (resp.route = "show" /\ resp.kind = "view" /\ ~resp.moved) =>
        LET c == resp.declared
            S == IF IsNone(c.Scale) THEN ROne ELSE Val(c.Scale)
            theta == IF IsNone(c.XAxis) THEN 0 ELSE Val(c.XAxis)
            r == equations(S, theta, c.Eastings, c.Northings, c.OrthogonalHeight,
                           [X |-> WorldOrigin[1], Y |-> WorldOrigin[2],
                            Z |-> WorldOrigin[3],
                            X_prime |-> resp.xx, Y_prime |-> resp.yy,
                            Z_prime |-> RZero])
        IN  r[1] = RZero /\ r[2] = RZero

====
